---- MODULE Spec2Model ----
(***************************************************************************)
(* Book_Forum: the social-interaction routes of the backend                *)
(* (backend book routes: reactions and comments on a book entry).          *)
(*                                                                         *)
(* The persisted state is the Book, Comment and Notification collections.  *)
(* A route handler is an async function: it runs atomically between two    *)
(* awaits, so every action below is one such run: the database effect of   *)
(* the awaited call followed by the synchronous code up to the next await. *)
(* book.save() is Mongoose's save of a loaded document: it sends the       *)
(* tracked changes (array push/pull atomics and $set of modified scalar    *)
(* paths), not the whole document.                                         *)
(***************************************************************************)
EXTENDS Integers, Sequences, FiniteSets, TLC

\* ---------------------------------------------------------------- bounds
NumUsers == 2
MaxReq == 2

Users == 1..NumUsers
\* the stored books
BookIds == {1}
\* a well-formed book id that names no stored book
MissingBook == 2
ReqBookIds == BookIds \cup {MissingBook}

\* the comment texts a request can carry: empty, blank, a word, and a word
\* with blanks around it
\* a request body without a text field
NoText == <<"undefined">>

Texts == {<<>>, <<" ">>, <<"a">>, <<" ", "b", " ">>}

\* the text of a new comment may also be missing
NewTexts == Texts \cup {NoText}

VARIABLES books, comments, notifications, emitted, req,
          gate, store, storage, calls

\* the admin gate and the app's auth store, which no route handler touches
sideVars == <<gate, store, storage, calls>>

vars == <<books, comments, notifications, emitted, req, gate, store, storage, calls>>

\* ------------------------------------------------------- array helpers
\* MongooseArray.includes
Includes(arr, x) == \E i \in 1..Len(arr) : arr[i] = x

\* MongooseArray.push
Push(arr, x) == Append(arr, x)

\* MongooseArray.pull: removes every element equal to x
Pull(arr, x) == SelectSeq(arr, LAMBDA e : e # x)

Count(arr, x) == Len(SelectSeq(arr, LAMBDA e : e = x))

\* --------------------------------------------------------------- documents
NoBook ==
  [exists |-> FALSE, user |-> 0, likedBy |-> <<>>, dislikedBy |-> <<>>,
   like_count |-> 0, dislike_count |-> 0]

\* the owner of book b (book.user)
Owner(b) == ((b - 1) % NumUsers) + 1

NewBook(b) ==
  [exists |-> TRUE, user |-> Owner(b), likedBy |-> <<>>, dislikedBy |-> <<>>,
   like_count |-> 0, dislike_count |-> 0]

\* the users of S in increasing order
RECURSIVE SortedSeq(_)
SortedSeq(S) ==
  IF S = {} THEN <<>>
  ELSE LET m == CHOOSE x \in S : \A y \in S : x <= y
       IN <<m>> \o SortedSeq(S \ {m})

\* a stored book on which the users of L have liked and those of D disliked
StoredBook(b, L, D) ==
  [NewBook(b) EXCEPT !.likedBy = SortedSeq(L), !.dislikedBy = SortedSeq(D),
                     !.like_count = Cardinality(L), !.dislike_count = Cardinality(D)]

\* a Comment document; NoComment is the null of Comment.findById
NoComment == [exists |-> FALSE, text |-> <<>>, user |-> 0, book |-> 0]

\* Comment.findById
FindComment(c) ==
  IF c \in 1..Len(comments) /\ comments[c].exists THEN comments[c] ELSE NoComment

\* Book.findById
FindBook(b) == IF b \in DOMAIN books /\ books[b].exists THEN books[b] ELSE NoBook

\* req.io: the Socket.IO instance the server attaches to every request
io == TRUE

\* ------------------------------------------------- reaction handlers (local)
\* a like that does not look for the user in likedBy
LikeUpdated_NoCheck(book, userId) == TRUE

\* PUT /:id/like: the changes made to the loaded document
LikeUpdated(book, userId) == ~Includes(book.likedBy, userId)

\* a like that leaves dislike_count alone when it pulls the user from
\* dislikedBy
LikeDoc_KeepCount(book, userId) ==
  IF LikeUpdated(book, userId)
  THEN LET b1 == [book EXCEPT !.likedBy = Push(@, userId), !.like_count = @ + 1]
       IN IF Includes(book.dislikedBy, userId)
          THEN [b1 EXCEPT !.dislikedBy = Pull(@, userId)]
          ELSE b1
  ELSE book

LikeDoc(book, userId) ==
  IF LikeUpdated(book, userId)
  THEN LET b1 == [book EXCEPT !.likedBy = Push(@, userId), !.like_count = @ + 1]
       IN IF Includes(book.dislikedBy, userId)
          THEN [b1 EXCEPT !.dislikedBy = Pull(@, userId), !.dislike_count = @ - 1]
          ELSE b1
  ELSE book

\* a like that never notifies
LikeShouldNotify_Never(book, userId) == FALSE

\* a like that notifies the owner of every like
LikeShouldNotify_Always(book, userId) == TRUE

\* the like handler notifies only when the liker is not the owner
LikeShouldNotify(book, userId) == book.user # userId

\* PUT /:id/unlike
UnlikeUpdated(book, userId) == Includes(book.likedBy, userId)

\* an unlike that leaves like_count as it was
UnlikeDoc_KeepCount(book, userId) ==
  IF UnlikeUpdated(book, userId)
  THEN [book EXCEPT !.likedBy = Pull(@, userId)]
  ELSE book

UnlikeDoc(book, userId) ==
  IF UnlikeUpdated(book, userId)
  THEN [book EXCEPT !.likedBy = Pull(@, userId), !.like_count = @ - 1]
  ELSE book

\* PUT /:id/dislike
DislikeUpdated(book, userId) == ~Includes(book.dislikedBy, userId)

\* a dislike that leaves the user in likedBy
DislikeDoc_NoSwitch(book, userId) ==
  IF DislikeUpdated(book, userId)
  THEN [book EXCEPT !.dislikedBy = Push(@, userId), !.dislike_count = @ + 1]
  ELSE book

DislikeDoc(book, userId) ==
  IF DislikeUpdated(book, userId)
  THEN LET b1 == [book EXCEPT !.dislikedBy = Push(@, userId), !.dislike_count = @ + 1]
       IN IF Includes(book.likedBy, userId)
          THEN [b1 EXCEPT !.likedBy = Pull(@, userId), !.like_count = @ - 1]
          ELSE b1
  ELSE book

\* PUT /:id/remove-dislike
RemoveDislikeUpdated(book, userId) == Includes(book.dislikedBy, userId)

RemoveDislikeDoc(book, userId) ==
  IF RemoveDislikeUpdated(book, userId)
  THEN [book EXCEPT !.dislikedBy = Pull(@, userId), !.dislike_count = @ - 1]
  ELSE book

\* ------------------------------------------------------------ book.save()
\* The update book.save() sends for a document loaded as orig and changed to
\* local by the handler of user u: $push / $pull of u on an array the handler
\* pushed to / pulled from, $set of a count whose value changed.
SaveArray(dbArr, origArr, localArr, u) ==
  IF Count(localArr, u) > Count(origArr, u) THEN Append(dbArr, u)
  ELSE IF Count(localArr, u) < Count(origArr, u) THEN Pull(dbArr, u)
  ELSE dbArr

SaveCount(dbN, origN, localN) == IF localN # origN THEN localN ELSE dbN

SaveBook(db, orig, local, u) ==
  [db EXCEPT !.likedBy = SaveArray(@, orig.likedBy, local.likedBy, u),
             !.dislikedBy = SaveArray(@, orig.dislikedBy, local.dislikedBy, u),
             !.like_count = SaveCount(@, orig.like_count, local.like_count),
             !.dislike_count = SaveCount(@, orig.dislike_count, local.dislike_count)]

\* emitBookUpdate(req, bookDocument): one bookInteractionUpdate to the room of
\* the document, carrying the handler's document
emitBookUpdate(i, b, doc) ==
  IF io /\ doc.exists
  THEN <<[room |-> b, event |-> "bookInteractionUpdate", by |-> i, id |-> b,
          doc |-> doc]>>
  ELSE <<>>

\* a handler that saves and broadcasts on every call
ShouldSave_Always(updated) == TRUE

\* the handler saves and broadcasts only when it changed the document
ShouldSave(updated) == updated

\* createAndSendNotification(io, recipient, sender, type, message, link,
\* relatedType, relatedId): no-op for a self notification, otherwise one
\* Notification
CreateNotification(i, recipient, sender, kind, link, relType, relId) ==
  IF recipient = sender
  THEN <<>>
  ELSE <<[recipient |-> recipient, sender |-> sender, kind |-> kind,
          link |-> link, relatedItemType |-> relType, relatedItemId |-> relId,
          by |-> i]>>

\* `/books/${book._id}`
BookLink(b) == [book |-> b, commentId |-> 0]

\* `/books/${bookId}?commentId=${newComment._id}`
CommentLink(b, c) == [book |-> b, commentId |-> c]

\* ----------------------------------------------------------------- requests
NewReq(op, u, b, book, local, updated, pc, status) ==
  [op |-> op, user |-> u, bookId |-> b, pc |-> pc, orig |-> book,
   doc |-> local, updated |-> updated, status |-> status,
   after |-> FindBook(b), dispatched |-> 0,
   commentId |-> 0, text |-> <<>>, corig |-> NoComment, cdoc |-> NoComment,
   err |-> "none",
   pre |-> [books |-> books, comments |-> comments, notifications |-> notifications]]

Quiescent == \A i \in 1..Len(req) : req[i].pc = "done"

\* a reaction handler without the `if (!book) return 404` line: the null
\* document throws on its first use and the catch answers 500
ReactionStart_NoBookCheck(op, u, b, local, updated, notify) ==
  /\ Len(req) < MaxReq
  /\ LET book == FindBook(b)
     IN IF ~book.exists
        THEN req' = Append(req, NewReq(op, u, b, book, book, FALSE, "done", 500))
        ELSE IF updated /\ notify
        THEN req' = Append(req, NewReq(op, u, b, book, local, updated, "notify", 0))
        ELSE IF ShouldSave(updated)
        THEN req' = Append(req, NewReq(op, u, b, book, local, updated, "save", 0))
        ELSE req' = Append(req, NewReq(op, u, b, book, local, updated, "done", 200))
  /\ UNCHANGED <<books, comments, notifications, emitted>>
  /\ UNCHANGED sideVars

\* The run of a reaction handler from Book.findById to its next await.
ReactionStart(op, u, b, local, updated, notify) ==
  /\ Len(req) < MaxReq
  /\ LET book == FindBook(b)
     IN IF ~book.exists
        THEN req' = Append(req, NewReq(op, u, b, book, book, FALSE, "done", 404))
        ELSE IF updated /\ notify
        THEN req' = Append(req, NewReq(op, u, b, book, local, updated, "notify", 0))
        ELSE IF ShouldSave(updated)
        THEN req' = Append(req, NewReq(op, u, b, book, local, updated, "save", 0))
        ELSE req' = Append(req, NewReq(op, u, b, book, local, updated, "done", 200))
  /\ UNCHANGED <<books, comments, notifications, emitted>>
  /\ UNCHANGED sideVars

Like(u, b) ==
  LET book == FindBook(b)
  IN ReactionStart("like", u, b, LikeDoc(book, u), LikeUpdated(book, u),
                   LikeShouldNotify(book, u))

Unlike(u, b) ==
  LET book == FindBook(b)
  IN ReactionStart("unlike", u, b, UnlikeDoc(book, u), UnlikeUpdated(book, u), FALSE)

Dislike(u, b) ==
  LET book == FindBook(b)
  IN ReactionStart("dislike", u, b, DislikeDoc(book, u), DislikeUpdated(book, u), FALSE)

RemoveDislike(u, b) ==
  LET book == FindBook(b)
  IN ReactionStart("removeDislike", u, b, RemoveDislikeDoc(book, u),
                   RemoveDislikeUpdated(book, u), FALSE)

\* like: await createAndSendNotification(...), issued before book.save()
LikeNotify(i) ==
  /\ i \in 1..Len(req)
  /\ req[i].pc = "notify"
  /\ req[i].op = "like"
  /\ notifications' = notifications \o
       CreateNotification(i, req[i].orig.user, req[i].user, "new_like_on_book",
                          BookLink(req[i].bookId), "Book", req[i].bookId)
  /\ req' = [req EXCEPT ![i] = [@ EXCEPT !.pc = "save", !.dispatched = @ + 1]]
  /\ UNCHANGED <<books, comments, emitted>>
  /\ UNCHANGED sideVars

\* like: the awaited createAndSendNotification(...) rejects (its Notification
\* was not stored): catch, res.status(500); book.save() is never reached
LikeNotifyFail(i) ==
  /\ i \in 1..Len(req)
  /\ req[i].pc = "notify"
  /\ req[i].op = "like"
  /\ req' = [req EXCEPT ![i] = [@ EXCEPT !.pc = "done", !.status = 500,
                                          !.dispatched = @ + 1, !.err = "notify"]]
  /\ UNCHANGED <<books, comments, notifications, emitted>>
  /\ UNCHANGED sideVars

\* await book.save() succeeds; emitBookUpdate; res.status(200).json(book)
BookSave(i) ==
  /\ i \in 1..Len(req)
  /\ req[i].pc = "save"
  /\ req[i].op \in {"like", "unlike", "dislike", "removeDislike"}
  /\ LET b == req[i].bookId
     IN /\ books[b].exists
        /\ books' = [books EXCEPT ![b] = SaveBook(@, req[i].orig, req[i].doc, req[i].user)]
        /\ emitted' = emitted \o emitBookUpdate(i, b, req[i].doc)
        /\ req' = [req EXCEPT ![i] = [@ EXCEPT !.pc = "done", !.status = 200,
                                                !.after = books'[b]]]
  /\ UNCHANGED <<comments, notifications>>
  /\ UNCHANGED sideVars

\* await book.save() rejects: catch, res.status(500)
BookSaveFail(i) ==
  /\ i \in 1..Len(req)
  /\ req[i].pc = "save"
  /\ req[i].op \in {"like", "unlike", "dislike", "removeDislike"}
  /\ req' = [req EXCEPT ![i] = [@ EXCEPT !.pc = "done", !.status = 500,
                                          !.err = "save"]]
  /\ UNCHANGED <<books, comments, notifications, emitted>>
  /\ UNCHANGED sideVars

\* ------------------------------------------------------- comment handlers
\* String.prototype.trim (also the schema's trim setter of Comment.text)
RECURSIVE TrimLeft(_)
TrimLeft(t) == IF t # <<>> /\ Head(t) = " " THEN TrimLeft(Tail(t)) ELSE t

RECURSIVE TrimRight(_)
TrimRight(t) ==
  IF t # <<>> /\ t[Len(t)] = " " THEN TrimRight(SubSeq(t, 1, Len(t) - 1)) ELSE t

Trim(t) == TrimRight(TrimLeft(t))

\* !text || text.trim() === ""
TextInvalid(t) == t = NoText \/ t = <<>> \/ Trim(t) = <<>>

CommentOps == {"createComment", "editComment", "deleteComment"}

CommentReq(op, u, b, c, t, book, corig, cdoc, pc, status) ==
  [NewReq(op, u, b, book, book, FALSE, pc, status)
     EXCEPT !.commentId = c, !.text = t, !.corig = corig, !.cdoc = cdoc]

CanStartComment == Len(req) < MaxReq

CreateStatus_NoBookCheck(t, book) ==
  IF TextInvalid(t) THEN 400 ELSE 0

\* POST /:bookId/comments: the status the checks before the save respond
\* with, 0 when they all pass
CreateStatus(t, book) ==
  IF TextInvalid(t) THEN 400
  ELSE IF ~book.exists THEN 404
  ELSE 0

CommentShouldNotify_Never(book, userId) == FALSE

\* the comment handler notifies only when the author is not the book's owner
CommentShouldNotify(book, userId) == book.user # userId

CreateComment(u, b, t) ==
  /\ CanStartComment
  /\ LET book == FindBook(b)
         st == CreateStatus(t, book)
         newComment == [exists |-> TRUE, text |-> Trim(t), user |-> u, book |-> b]
     IN IF st # 0
        THEN req' = Append(req, CommentReq("createComment", u, b, 0, t, book,
                                           NoComment, NoComment, "done", st))
        ELSE req' = Append(req, CommentReq("createComment", u, b, 0, t, book,
                                           NoComment, newComment, "save", 0))
  /\ UNCHANGED <<books, comments, notifications, emitted>>
  /\ UNCHANGED sideVars

\* await newComment.save() succeeds; populate; emit newComment to the room
CommentSave(i) ==
  /\ i \in 1..Len(req)
  /\ req[i].pc = "save"
  /\ req[i].op = "createComment"
  /\ LET c == Len(comments) + 1
         b == req[i].bookId
     IN /\ comments' = Append(comments, req[i].cdoc)
        /\ emitted' = emitted \o
             (IF io
              THEN <<[room |-> b, event |-> "newComment", by |-> i, id |-> c,
                      doc |-> req[i].cdoc]>>
              ELSE <<>>)
        /\ IF CommentShouldNotify(req[i].orig, req[i].user)
           THEN req' = [req EXCEPT ![i] = [@ EXCEPT !.pc = "notify", !.commentId = c]]
           ELSE req' = [req EXCEPT ![i] = [@ EXCEPT !.pc = "done", !.status = 201,
                                                   !.commentId = c]]
  /\ UNCHANGED <<books, notifications>>
  /\ UNCHANGED sideVars

\* await newComment.save() rejects: catch, res.status(500)
CommentSaveFail(i) ==
  /\ i \in 1..Len(req)
  /\ req[i].pc = "save"
  /\ req[i].op = "createComment"
  /\ req' = [req EXCEPT ![i] = [@ EXCEPT !.pc = "done", !.status = 500,
                                          !.err = "save"]]
  /\ UNCHANGED <<books, comments, notifications, emitted>>
  /\ UNCHANGED sideVars

\* await createAndSendNotification(...); res.status(201)
CommentNotify(i) ==
  /\ i \in 1..Len(req)
  /\ req[i].pc = "notify"
  /\ req[i].op = "createComment"
  /\ notifications' = notifications \o
       CreateNotification(i, req[i].orig.user, req[i].user, "new_comment",
                          CommentLink(req[i].bookId, req[i].commentId),
                          "Comment", req[i].commentId)
  /\ req' = [req EXCEPT ![i] = [@ EXCEPT !.pc = "done", !.status = 201,
                                          !.dispatched = @ + 1]]
  /\ UNCHANGED <<books, comments, emitted>>
  /\ UNCHANGED sideVars

\* the awaited createAndSendNotification(...) rejects (its Notification was
\* not stored): catch, res.status(500); the comment is already stored
CommentNotifyFail(i) ==
  /\ i \in 1..Len(req)
  /\ req[i].pc = "notify"
  /\ req[i].op = "createComment"
  /\ req' = [req EXCEPT ![i] = [@ EXCEPT !.pc = "done", !.status = 500,
                                          !.dispatched = @ + 1, !.err = "notify"]]
  /\ UNCHANGED <<books, comments, notifications, emitted>>
  /\ UNCHANGED sideVars

\* an edit handler that does not compare comment.book with bookId
EditStatus_NoBookCheck(t, comment, userId, bookId) ==
  IF TextInvalid(t) THEN 400
  ELSE IF ~comment.exists THEN 404
  ELSE IF comment.user # userId THEN 403
  ELSE 0

\* PUT /:bookId/comments/:commentId: the status the checks before the save
\* respond with, in the order the handler makes them; 0 when they all pass
EditStatus(t, comment, userId, bookId) ==
  IF TextInvalid(t) THEN 400
  ELSE IF ~comment.exists THEN 404
  ELSE IF comment.user # userId THEN 403
  ELSE IF comment.book # bookId THEN 400
  ELSE 0

EditComment(u, b, c, t) ==
  /\ CanStartComment
  /\ LET comment == FindComment(c)
         st == EditStatus(t, comment, u, b)
     IN IF st # 0
        THEN req' = Append(req, CommentReq("editComment", u, b, c, t, FindBook(b),
                                           comment, comment, "done", st))
        ELSE req' = Append(req, CommentReq("editComment", u, b, c, t, FindBook(b),
                                           comment, [comment EXCEPT !.text = Trim(t)],
                                           "save", 0))
  /\ UNCHANGED <<books, comments, notifications, emitted>>
  /\ UNCHANGED sideVars

\* await comment.save() succeeds; Comment.findById(...).populate; emit
\* commentUpdated to the room of the request's bookId; res.json
EditSave(i) ==
  /\ i \in 1..Len(req)
  /\ req[i].pc = "save"
  /\ req[i].op = "editComment"
  /\ LET c == req[i].commentId
     IN /\ comments[c].exists
        /\ comments' = [comments EXCEPT ![c] = [@ EXCEPT !.text = req[i].cdoc.text]]
        /\ emitted' = emitted \o
             (IF io
              THEN <<[room |-> req[i].bookId, event |-> "commentUpdated", by |-> i,
                      id |-> c, doc |-> comments'[c]]>>
              ELSE <<>>)
        /\ req' = [req EXCEPT ![i] = [@ EXCEPT !.pc = "done", !.status = 200]]
  /\ UNCHANGED <<books, notifications>>
  /\ UNCHANGED sideVars

\* await comment.save() rejects: catch, res.status(500)
EditSaveFail(i) ==
  /\ i \in 1..Len(req)
  /\ req[i].pc = "save"
  /\ req[i].op = "editComment"
  /\ req' = [req EXCEPT ![i] = [@ EXCEPT !.pc = "done", !.status = 500,
                                          !.err = "save"]]
  /\ UNCHANGED <<books, comments, notifications, emitted>>
  /\ UNCHANGED sideVars

\* DELETE /:bookId/comments/:commentId: the status the checks after
\* Comment.findById respond with, 0 when they all pass
DeleteStatus(comment, userId, bookId) ==
  IF ~comment.exists THEN 404
  ELSE IF comment.user # userId THEN 403
  ELSE IF comment.book # bookId THEN 400
  ELSE 0

\* the events the delete handler emits right after Comment.findById, before
\* any of its checks
DeleteEmit(i, b, c, comment) ==
  IF io
  THEN <<[room |-> b, event |-> "commentDeleted", by |-> i, id |-> c,
          doc |-> NoComment]>>
  ELSE <<>>

DeleteComment(u, b, c) ==
  /\ CanStartComment
  /\ LET comment == FindComment(c)
         st == DeleteStatus(comment, u, b)
         i == Len(req) + 1
     IN /\ emitted' = emitted \o DeleteEmit(i, b, c, comment)
        /\ IF st # 0
           THEN req' = Append(req, CommentReq("deleteComment", u, b, c, <<>>,
                                              FindBook(b), comment, comment, "done", st))
           ELSE req' = Append(req, CommentReq("deleteComment", u, b, c, <<>>,
                                              FindBook(b), comment, comment, "save", 0))
  /\ UNCHANGED <<books, comments, notifications>>
  /\ UNCHANGED sideVars

\* await Comment.findByIdAndDelete(commentId) succeeds; res.json
DeleteSave(i) ==
  /\ i \in 1..Len(req)
  /\ req[i].pc = "save"
  /\ req[i].op = "deleteComment"
  /\ LET c == req[i].commentId
     IN comments' = [comments EXCEPT ![c] = NoComment]
  /\ req' = [req EXCEPT ![i] = [@ EXCEPT !.pc = "done", !.status = 200]]
  /\ UNCHANGED <<books, notifications, emitted>>
  /\ UNCHANGED sideVars

\* await Comment.findByIdAndDelete(commentId) rejects: catch, res.status(500)
DeleteSaveFail(i) ==
  /\ i \in 1..Len(req)
  /\ req[i].pc = "save"
  /\ req[i].op = "deleteComment"
  /\ req' = [req EXCEPT ![i] = [@ EXCEPT !.pc = "done", !.status = 500,
                                          !.err = "save"]]
  /\ UNCHANGED <<books, comments, notifications, emitted>>
  /\ UNCHANGED sideVars

\* the comment ids a request can name: the stored ones and one that names no
\* comment
ReqCommentIds == 1..(Len(comments) + 1)

\* every book is new
\* ------------------------------------------------------------ isAdmin
MaxGate == 3

\* role values a request's user may carry; NoRole is a user without a role
NoRole == "undefined"
Roles == {"admin", "user", "guest", "Admin", NoRole}

\* req.user: absent, or a user with a role
NoUser == [present |-> FALSE, role |-> NoRole]
GateUsers == {NoUser} \cup {[present |-> TRUE, role |-> r] : r \in Roles}

\* a gate that lets every authenticated user through
isAdmin_AnyUser(user) ==
  IF user.present
  THEN [next |-> 1, status |-> 0]
  ELSE [next |-> 0, status |-> 403]

\* isAdmin(req, res, next): the number of next() calls and the status sent
\* (0 when no response is sent)
isAdmin(user) ==
  IF user.present /\ user.role = "admin"
  THEN [next |-> 1, status |-> 0]
  ELSE [next |-> 0, status |-> 403]

\* one request passes through the gate
AdminRequest(user) ==
  /\ Len(gate) < MaxGate
  /\ gate' = Append(gate, [user |-> user, out |-> isAdmin(user)])
  /\ UNCHANGED <<books, comments, notifications, emitted, req, store, storage, calls>>

NextAdmin == \E user \in GateUsers : AdminRequest(user)

\* ------------------------------------------------------------ useAuthStore
MaxCalls == 2

\* the accounts a successful response may carry as data.user; 0 is null
Accounts == {1, 2}
Null == 0

\* data.token of the response for account a; <<>> is a null token
TokenOf(a) == <<"token", a>>
NoToken == <<>>

\* AsyncStorage items; <<>> is an absent item (getItem gives null)
NoItem == <<>>
Stringify(a) == <<"json", a>>
Parse(item) == item[2]

\* create((set) => ({ user: null, token: null, isLoading: false,
\* isCheckingAuth: true, ... }))
InitialStore ==
  [user |-> Null, token |-> NoToken, isLoading |-> FALSE, isCheckingAuth |-> TRUE]

EmptyStorage == [user |-> NoItem, token |-> NoItem]

NewCall(op, a, pc) ==
  [op |-> op, acct |-> a, pc |-> pc, result |-> "pending", err |-> "none",
   tok |-> NoItem,
   before |-> [user |-> Null, token |-> NoToken],
   after |-> [user |-> Null, token |-> NoToken]]

\* the user and token of the store, kept with a call when it resolves
Session(st) == [user |-> st.user, token |-> st.token]

\* call i resolves with result r, after its last step changed the store
\* from st to st2
Resolve(i, r, e, st, st2) ==
  calls' = [calls EXCEPT ![i] = [@ EXCEPT !.pc = "done", !.result = r, !.err = e,
                                          !.before = Session(st),
                                          !.after = Session(st2)]]

\* a register whose catch resets the flag and returns a failure value, as
\* the catch of login does
RegisterCatch_AsLogin(st) ==
  [store |-> [st EXCEPT !.isLoading = FALSE], result |-> "failure"]

\* register: catch (error) { console.log(...) }: the store is not touched
\* and the call resolves with undefined
RegisterCatch(st) == [store |-> st, result |-> "undefined"]

\* login: catch (error) { set({isLoading: false}); return {success: false,
\* error} }
LoginCatch(st) ==
  [store |-> [st EXCEPT !.isLoading = FALSE], result |-> "failure"]

CatchOf(op, st) == IF op = "register" THEN RegisterCatch(st) ELSE LoginCatch(st)

\* register(...) / login(...): set({isLoading: true}) and the fetch is sent
SignIn(op, a) ==
  /\ Len(calls) < MaxCalls
  /\ store' = [store EXCEPT !.isLoading = TRUE]
  /\ calls' = Append(calls, NewCall(op, a, "fetch"))
  /\ UNCHANGED <<books, comments, notifications, emitted, req, gate, storage>>

Register(a) == SignIn("register", a)

Login(a) == SignIn("login", a)

\* await fetch, await response.json(): response.ok
SignInFetch(i) ==
  /\ i \in 1..Len(calls)
  /\ calls[i].op \in {"register", "login"}
  /\ calls[i].pc = "fetch"
  /\ calls' = [calls EXCEPT ![i] = [@ EXCEPT !.pc = "setUser"]]
  /\ UNCHANGED <<books, comments, notifications, emitted, req, gate, store, storage>>

\* await AsyncStorage.setItem("user", JSON.stringify(data.user))
SignInSetUser(i) ==
  /\ i \in 1..Len(calls)
  /\ calls[i].op \in {"register", "login"}
  /\ calls[i].pc = "setUser"
  /\ storage' = [storage EXCEPT !.user = Stringify(calls[i].acct)]
  /\ calls' = [calls EXCEPT ![i] = [@ EXCEPT !.pc = "setToken"]]
  /\ UNCHANGED <<books, comments, notifications, emitted, req, gate, store>>

\* await AsyncStorage.setItem("token", data.token); set({user, token,
\* isLoading: false}); return {success: true}
SignInSetToken(i) ==
  /\ i \in 1..Len(calls)
  /\ calls[i].op \in {"register", "login"}
  /\ calls[i].pc = "setToken"
  /\ storage' = [storage EXCEPT !.token = TokenOf(calls[i].acct)]
  /\ store' = [store EXCEPT !.user = calls[i].acct,
                            !.token = TokenOf(calls[i].acct),
                            !.isLoading = FALSE]
  /\ Resolve(i, "success", "none", store, store')
  /\ UNCHANGED <<books, comments, notifications, emitted, req, gate>>

\* the fetch rejects or the response is not ok (pc fetch), or a setItem
\* rejects (pc setUser, setToken): the catch of the call runs
SignInFail(i) ==
  /\ i \in 1..Len(calls)
  /\ calls[i].op \in {"register", "login"}
  /\ calls[i].pc \in {"fetch", "setUser", "setToken"}
  /\ LET c == CatchOf(calls[i].op, store)
     IN /\ store' = c.store
        /\ Resolve(i, c.result, calls[i].pc, store, c.store)
  /\ UNCHANGED <<books, comments, notifications, emitted, req, gate, storage>>

\* checkAuth() is called
CheckAuth ==
  /\ Len(calls) < MaxCalls
  /\ calls' = Append(calls, NewCall("checkAuth", Null, "getToken"))
  /\ UNCHANGED <<books, comments, notifications, emitted, req, gate, store, storage>>

\* const token = await AsyncStorage.getItem('token')
CheckAuthGetToken(i) ==
  /\ i \in 1..Len(calls)
  /\ calls[i].op = "checkAuth"
  /\ calls[i].pc = "getToken"
  /\ calls' = [calls EXCEPT ![i] = [@ EXCEPT !.pc = "getUser", !.tok = storage.token]]
  /\ UNCHANGED <<books, comments, notifications, emitted, req, gate, store, storage>>

\* const userJson = await AsyncStorage.getItem('user'); user = userJson ?
\* JSON.parse(userJson) : null; set({token, user}); finally
\* set({isCheckingAuth: false})
CheckAuthGetUser(i) ==
  /\ i \in 1..Len(calls)
  /\ calls[i].op = "checkAuth"
  /\ calls[i].pc = "getUser"
  /\ store' = [store EXCEPT
                 !.token = calls[i].tok,
                 !.user = IF storage.user # NoItem THEN Parse(storage.user) ELSE Null,
                 !.isCheckingAuth = FALSE]
  /\ Resolve(i, "undefined", "none", store, store')
  /\ UNCHANGED <<books, comments, notifications, emitted, req, gate, storage>>

\* a getItem rejects: catch logs; finally set({isCheckingAuth: false})
CheckAuthFail(i) ==
  /\ i \in 1..Len(calls)
  /\ calls[i].op = "checkAuth"
  /\ calls[i].pc \in {"getToken", "getUser"}
  /\ store' = [store EXCEPT !.isCheckingAuth = FALSE]
  /\ Resolve(i, "undefined", calls[i].pc, store, store')
  /\ UNCHANGED <<books, comments, notifications, emitted, req, gate, storage>>

\* logout() is called
Logout ==
  /\ Len(calls) < MaxCalls
  /\ calls' = Append(calls, NewCall("logout", Null, "removeToken"))
  /\ UNCHANGED <<books, comments, notifications, emitted, req, gate, store, storage>>

\* await AsyncStorage.removeItem('token')
LogoutRemoveToken(i) ==
  /\ i \in 1..Len(calls)
  /\ calls[i].op = "logout"
  /\ calls[i].pc = "removeToken"
  /\ storage' = [storage EXCEPT !.token = NoItem]
  /\ calls' = [calls EXCEPT ![i] = [@ EXCEPT !.pc = "removeUser"]]
  /\ UNCHANGED <<books, comments, notifications, emitted, req, gate, store>>

\* await AsyncStorage.removeItem('user'); set({token: null, user: null});
\* router.replace
LogoutRemoveUser(i) ==
  /\ i \in 1..Len(calls)
  /\ calls[i].op = "logout"
  /\ calls[i].pc = "removeUser"
  /\ storage' = [storage EXCEPT !.user = NoItem]
  /\ store' = [store EXCEPT !.token = NoToken, !.user = Null]
  /\ Resolve(i, "undefined", "none", store, store')
  /\ UNCHANGED <<books, comments, notifications, emitted, req, gate>>

\* a removeItem rejects: catch logs the error
LogoutFail(i) ==
  /\ i \in 1..Len(calls)
  /\ calls[i].op = "logout"
  /\ calls[i].pc \in {"removeToken", "removeUser"}
  /\ Resolve(i, "undefined", calls[i].pc, store, store)
  /\ UNCHANGED <<books, comments, notifications, emitted, req, gate, store, storage>>

\* the calls of the auth store, overlapping freely
NextAuth ==
  \/ \E a \in Accounts : Register(a)
  \/ \E a \in Accounts : Login(a)
  \/ CheckAuth
  \/ Logout
  \/ \E i \in 1..MaxCalls : SignInFetch(i)
  \/ \E i \in 1..MaxCalls : SignInSetUser(i)
  \/ \E i \in 1..MaxCalls : SignInSetToken(i)
  \/ \E i \in 1..MaxCalls : SignInFail(i)
  \/ \E i \in 1..MaxCalls : CheckAuthGetToken(i)
  \/ \E i \in 1..MaxCalls : CheckAuthGetUser(i)
  \/ \E i \in 1..MaxCalls : CheckAuthFail(i)
  \/ \E i \in 1..MaxCalls : LogoutRemoveToken(i)
  \/ \E i \in 1..MaxCalls : LogoutRemoveUser(i)
  \/ \E i \in 1..MaxCalls : LogoutFail(i)

\* no request has passed the gate, the app has just been installed
SideInit ==
  /\ gate = <<>>
  /\ store = InitialStore
  /\ storage = EmptyStorage
  /\ calls = <<>>

Init ==
  /\ books = [b \in BookIds |-> NewBook(b)]
  /\ comments = <<>>
  /\ notifications = <<>>
  /\ emitted = <<>>
  /\ req = <<>>
  /\ SideInit

\* every book is stored with the reactions some users have left on it
InitStored ==
  /\ \E L \in [BookIds -> SUBSET Users] :
       \E D \in [BookIds -> SUBSET Users] :
         /\ \A b \in BookIds : L[b] \cap D[b] = {}
         /\ books = [b \in BookIds |-> StoredBook(b, L[b], D[b])]
  /\ comments = <<>>
  /\ notifications = <<>>
  /\ emitted = <<>>
  /\ req = <<>>
  /\ SideInit

\* concurrent reaction requests: a new request may arrive at any time
Next ==
  \/ \E u \in Users, b \in ReqBookIds : Like(u, b)
  \/ \E u \in Users, b \in ReqBookIds : Unlike(u, b)
  \/ \E u \in Users, b \in ReqBookIds : Dislike(u, b)
  \/ \E u \in Users, b \in ReqBookIds : RemoveDislike(u, b)
  \/ \E i \in 1..MaxReq : LikeNotify(i)
  \/ \E i \in 1..MaxReq : LikeNotifyFail(i)
  \/ \E i \in 1..MaxReq : BookSave(i)
  \/ \E i \in 1..MaxReq : BookSaveFail(i)

Spec == Init /\ [][Next]_vars

\* one request at a time, reactions and comment creations: each call
\* completes before the next starts
NextSeq ==
  \/ Quiescent /\ \E u \in Users, b \in ReqBookIds : Like(u, b)
  \/ Quiescent /\ \E u \in Users, b \in ReqBookIds : Unlike(u, b)
  \/ Quiescent /\ \E u \in Users, b \in ReqBookIds : Dislike(u, b)
  \/ Quiescent /\ \E u \in Users, b \in ReqBookIds : RemoveDislike(u, b)
  \/ Quiescent /\ \E u \in Users, b \in ReqBookIds, t \in NewTexts : CreateComment(u, b, t)
  \/ \E i \in 1..MaxReq : LikeNotify(i)
  \/ \E i \in 1..MaxReq : LikeNotifyFail(i)
  \/ \E i \in 1..MaxReq : BookSave(i)
  \/ \E i \in 1..MaxReq : BookSaveFail(i)
  \/ \E i \in 1..MaxReq : CommentSave(i)
  \/ \E i \in 1..MaxReq : CommentSaveFail(i)
  \/ \E i \in 1..MaxReq : CommentNotify(i)
  \/ \E i \in 1..MaxReq : CommentNotifyFail(i)

SpecSeq == Init /\ [][NextSeq]_vars

\* the comment routes, one request at a time
NextComments ==
  \/ Quiescent /\ \E u \in Users, b \in ReqBookIds, t \in NewTexts : CreateComment(u, b, t)
  \/ Quiescent /\ \E u \in Users, b \in ReqBookIds, c \in ReqCommentIds, t \in Texts :
                    EditComment(u, b, c, t)
  \/ Quiescent /\ \E u \in Users, b \in ReqBookIds, c \in ReqCommentIds :
                    DeleteComment(u, b, c)
  \/ \E i \in 1..MaxReq : CommentSave(i)
  \/ \E i \in 1..MaxReq : CommentSaveFail(i)
  \/ \E i \in 1..MaxReq : CommentNotify(i)
  \/ \E i \in 1..MaxReq : CommentNotifyFail(i)
  \/ \E i \in 1..MaxReq : EditSave(i)
  \/ \E i \in 1..MaxReq : EditSaveFail(i)
  \/ \E i \in 1..MaxReq : DeleteSave(i)
  \/ \E i \in 1..MaxReq : DeleteSaveFail(i)

SpecComments == Init /\ [][NextComments]_vars

\* ------------------------------------------------------------ DELETE /:id
\* Book.findById; 404 when missing, 401 when the caller is not the owner
DeleteBookStatus(book, userId) ==
  IF ~book.exists THEN 404
  ELSE IF book.user # userId THEN 401
  ELSE 0

DeleteBook(u, b) ==
  /\ Len(req) < MaxReq
  /\ LET book == FindBook(b)
         st == DeleteBookStatus(book, u)
     IN req' = Append(req, NewReq("deleteBook", u, b, book, book, FALSE,
                                  IF st # 0 THEN "done" ELSE "destroy", st))
  /\ UNCHANGED <<books, comments, notifications, emitted>>
  /\ UNCHANGED sideVars

\* await cloudinary.uploader.destroy(publicId) resolves
DeleteBookDestroy(i) ==
  /\ i \in 1..Len(req)
  /\ req[i].op = "deleteBook"
  /\ req[i].pc = "destroy"
  /\ req' = [req EXCEPT ![i] = [@ EXCEPT !.pc = "deleteMany"]]
  /\ UNCHANGED <<books, comments, notifications, emitted>>
  /\ UNCHANGED sideVars

\* Comment.deleteMany({ book: id }): the stored comments without those of b
DeleteMany(cs, b) ==
  [c \in 1..Len(cs) |-> IF cs[c].exists /\ cs[c].book = b THEN NoComment ELSE cs[c]]

\* await Comment.deleteMany({ book: req.params.id }) resolves
DeleteBookComments(i) ==
  /\ i \in 1..Len(req)
  /\ req[i].op = "deleteBook"
  /\ req[i].pc = "deleteMany"
  /\ comments' = DeleteMany(comments, req[i].bookId)
  /\ req' = [req EXCEPT ![i] = [@ EXCEPT !.pc = "deleteOne"]]
  /\ UNCHANGED <<books, notifications, emitted>>
  /\ UNCHANGED sideVars

\* await book.deleteOne() resolves; res.json
DeleteBookDoc(i) ==
  /\ i \in 1..Len(req)
  /\ req[i].op = "deleteBook"
  /\ req[i].pc = "deleteOne"
  /\ books' = [books EXCEPT ![req[i].bookId] = NoBook]
  /\ req' = [req EXCEPT ![i] = [@ EXCEPT !.pc = "done", !.status = 200,
                                          !.after = NoBook]]
  /\ UNCHANGED <<comments, notifications, emitted>>
  /\ UNCHANGED sideVars

\* one of the three awaited calls rejects: catch, res.status(500); what the
\* earlier calls deleted stays deleted
DeleteBookFail(i) ==
  /\ i \in 1..Len(req)
  /\ req[i].op = "deleteBook"
  /\ req[i].pc \in {"destroy", "deleteMany", "deleteOne"}
  /\ req' = [req EXCEPT ![i] = [@ EXCEPT !.pc = "done", !.status = 500,
                                          !.err = req[i].pc]]
  /\ UNCHANGED <<books, comments, notifications, emitted>>
  /\ UNCHANGED sideVars

\* deletions of entries and comment creations, overlapping freely
NextDelete ==
  \/ \E u \in Users, b \in ReqBookIds, t \in NewTexts : CreateComment(u, b, t)
  \/ \E i \in 1..MaxReq : CommentSave(i)
  \/ \E i \in 1..MaxReq : CommentSaveFail(i)
  \/ \E i \in 1..MaxReq : CommentNotify(i)
  \/ \E i \in 1..MaxReq : CommentNotifyFail(i)
  \/ \E u \in Users, b \in ReqBookIds : DeleteBook(u, b)
  \/ \E i \in 1..MaxReq : DeleteBookDestroy(i)
  \/ \E i \in 1..MaxReq : DeleteBookComments(i)
  \/ \E i \in 1..MaxReq : DeleteBookDoc(i)
  \/ \E i \in 1..MaxReq : DeleteBookFail(i)

SpecDelete == Init /\ [][NextDelete]_vars

\* reaction calls one at a time on stored books
NextReactSeq ==
  \/ Quiescent /\ \E u \in Users, b \in ReqBookIds : Like(u, b)
  \/ Quiescent /\ \E u \in Users, b \in ReqBookIds : Unlike(u, b)
  \/ Quiescent /\ \E u \in Users, b \in ReqBookIds : Dislike(u, b)
  \/ Quiescent /\ \E u \in Users, b \in ReqBookIds : RemoveDislike(u, b)
  \/ \E i \in 1..MaxReq : LikeNotify(i)
  \/ \E i \in 1..MaxReq : LikeNotifyFail(i)
  \/ \E i \in 1..MaxReq : BookSave(i)
  \/ \E i \in 1..MaxReq : BookSaveFail(i)

SpecReactSeq == InitStored /\ [][NextReactSeq]_vars

SpecAdmin == Init /\ [][NextAdmin]_vars

SpecAuth == Init /\ [][NextAuth]_vars

TypeOK ==
  /\ \A b \in BookIds : books[b].exists \/ books[b] = NoBook
  /\ Len(req) <= MaxReq

\* ------------------------------------------------------------ properties
ReactionOps == {"like", "unlike", "dislike", "removeDislike"}

\* the events request i emitted, and the Notifications it created
EmitsBy(i) == SelectSeq(emitted, LAMBDA e : e.by = i)
NotifsBy(i) == SelectSeq(notifications, LAMBDA n : n.by = i)

\* C1: mutual exclusion: in every persisted state of an entry, whatever the
\* interleaving of the reads and writes of reaction requests, no user is in
\* likedBy and in dislikedBy at the same time.
C1_MutualExclusion ==
  \A b \in BookIds : \A u \in Users :
    ~(Includes(books[b].likedBy, u) /\ Includes(books[b].dislikedBy, u))

\* C2: count consistency: after any sequence of reaction calls, each
\* completing before the next starts, like_count = |likedBy| and
\* dislike_count = |dislikedBy| and neither array holds a user twice.
C2_CountConsistency ==
  \A b \in BookIds :
    /\ books[b].like_count = Len(books[b].likedBy)
    /\ books[b].dislike_count = Len(books[b].dislikedBy)
    /\ \A u \in Users : /\ Count(books[b].likedBy, u) <= 1
                        /\ Count(books[b].dislikedBy, u) <= 1

\* a like that moved its user from dislikedBy to likedBy was persisted, and
\* so was a second reaction call that changed the entry
C2_Witness ==
  /\ Len(req) = 2
  /\ req[1].op = "like" /\ req[1].status = 200 /\ req[1].updated
  /\ Includes(req[1].orig.dislikedBy, req[1].user)
  /\ req[2].op \in ReactionOps /\ req[2].status = 200 /\ req[2].updated

\* C3: two like requests of the same user on the same entry, whatever the
\* interleaving of their reads and writes: once both have completed the user
\* is exactly once in likedBy, like_count is one more than before both, and
\* at most one of the two reports a change.
C3_NoDoubleCount ==
  (/\ Len(req) = 2
   /\ req[1].op = "like" /\ req[2].op = "like"
   /\ req[1].user = req[2].user /\ req[1].bookId = req[2].bookId
   /\ req[1].status = 200 /\ req[2].status = 200
   /\ ~Includes(req[1].orig.likedBy, req[1].user))
  => LET b == req[1].bookId
         u == req[1].user
     IN /\ Count(books[b].likedBy, u) = 1
        /\ books[b].like_count = req[1].orig.like_count + 1
        /\ ~(req[1].updated /\ req[2].updated)
        /\ Len(EmitsBy(1)) + Len(EmitsBy(2)) <= 1

\* the membership a completed reaction call leaves its user with
ReactionApplied(book, op, u) ==
  CASE op = "like" -> Includes(book.likedBy, u) /\ ~Includes(book.dislikedBy, u)
    [] op = "dislike" -> Includes(book.dislikedBy, u) /\ ~Includes(book.likedBy, u)
    [] op = "unlike" -> ~Includes(book.likedBy, u)
    [] op = "removeDislike" -> ~Includes(book.dislikedBy, u)

\* C4: two reaction requests of different users on the same entry, whatever
\* the interleaving of their reads and writes: once both have completed the
\* persisted entry holds the membership change of both and each count equals
\* the size of its array.
C4_NoLostUpdate ==
  (/\ Len(req) = 2
   /\ req[1].op \in ReactionOps /\ req[2].op \in ReactionOps
   /\ req[1].user # req[2].user /\ req[1].bookId = req[2].bookId
   /\ req[1].status = 200 /\ req[2].status = 200)
  => LET b == req[1].bookId
     IN /\ ReactionApplied(books[b], req[1].op, req[1].user)
        /\ ReactionApplied(books[b], req[2].op, req[2].user)
        /\ books[b].like_count = Len(books[b].likedBy)
        /\ books[b].dislike_count = Len(books[b].dislikedBy)

\* the arrays of two book states agree on every user but u
OthersUnchanged(b1, b2, u) ==
  \A v \in Users \ {u} :
    /\ Count(b2.likedBy, v) = Count(b1.likedBy, v)
    /\ Count(b2.dislikedBy, v) = Count(b1.dislikedBy, v)

\* call i and call i+1 are successful calls of op1 and op2 by the same user on
\* the same stored entry
Consecutive(i, op1, op2) ==
  /\ i + 1 <= Len(req)
  /\ req[i].op = op1 /\ req[i + 1].op = op2
  /\ req[i].user = req[i + 1].user /\ req[i].bookId = req[i + 1].bookId
  /\ req[i].status = 200 /\ req[i + 1].status = 200

\* C5: switching reaction: after like(E,U) then dislike(E,U), run one after
\* the other, U is not in likedBy and is in dislikedBy, like_count is 1 lower
\* and dislike_count 1 higher than right after the like; symmetrically for
\* dislike then like; the membership of every other user is unchanged.
C5_SwitchReaction ==
  \A i \in 1..Len(req) :
    /\ Consecutive(i, "like", "dislike") =>
         LET a1 == req[i].after
             a2 == req[i + 1].after
             u == req[i].user
         IN /\ ~Includes(a2.likedBy, u) /\ Includes(a2.dislikedBy, u)
            /\ a2.like_count = a1.like_count - 1
            /\ a2.dislike_count = a1.dislike_count + 1
            /\ OthersUnchanged(a1, a2, u)
    /\ Consecutive(i, "dislike", "like") =>
         LET a1 == req[i].after
             a2 == req[i + 1].after
             u == req[i].user
         IN /\ Includes(a2.likedBy, u) /\ ~Includes(a2.dislikedBy, u)
            /\ a2.like_count = a1.like_count + 1
            /\ a2.dislike_count = a1.dislike_count - 1
            /\ OthersUnchanged(a1, a2, u)

\* a like then a dislike of one user were both persisted on an entry another
\* user has reacted to
C5_Witness ==
  /\ Consecutive(1, "like", "dislike")
  /\ req[1].updated /\ req[2].updated
  /\ \E v \in Users \ {req[1].user} :
       Includes(books[req[1].bookId].likedBy, v)
       \/ Includes(books[req[1].bookId].dislikedBy, v)

\* call i + 1 repeats call i and does nothing: no change reported, no write,
\* no broadcast, no notification, and the entry is as call i left it
SilentRepeat(i) ==
  /\ ~req[i + 1].updated
  /\ req[i + 1].pc = "done"
  /\ req[i + 1].after = req[i].after
  /\ books[req[i].bookId] = req[i].after
  /\ EmitsBy(i + 1) = <<>>
  /\ NotifsBy(i + 1) = <<>> /\ req[i + 1].dispatched = 0

\* C6: idempotence: like(E,U) called twice in sequence leaves the persisted
\* entry as one call does, and the second call reports no change and
\* performs no write, broadcast or notification; the same for dislike.
C6_Idempotent ==
  \A i \in 1..Len(req) :
    (/\ i + 1 = Len(req)
     /\ req[i].op \in {"like", "dislike"} /\ req[i + 1].op = req[i].op
     /\ req[i].user = req[i + 1].user /\ req[i].bookId = req[i + 1].bookId
     /\ req[i].status = 200)
    => SilentRepeat(i)

\* a like that changed the entry was followed by a second like of the same
\* user
C6_Witness ==
  /\ Len(req) = 2
  /\ req[1].op = "like" /\ req[2].op = "like"
  /\ req[1].user = req[2].user /\ req[1].bookId = req[2].bookId
  /\ req[1].status = 200 /\ req[1].updated
  /\ req[2].status = 200

\* C7: a reaction call that changes nothing emits no bookInteractionUpdate
\* and creates no Notification; a call that changes the entry and whose write
\* succeeds emits exactly one bookInteractionUpdate, to the entry's room.
C7_BroadcastIffChanged ==
  \A i \in 1..Len(req) :
    req[i].op \in ReactionOps =>
      /\ ~req[i].updated =>
           /\ EmitsBy(i) = <<>>
           /\ NotifsBy(i) = <<>> /\ req[i].dispatched = 0
      /\ (req[i].updated /\ req[i].status = 200) =>
           /\ Len(EmitsBy(i)) = 1
           /\ EmitsBy(i)[1].event = "bookInteractionUpdate"
           /\ EmitsBy(i)[1].room = req[i].bookId
      /\ Len(EmitsBy(i)) <= 1

\* two requests in flight together: one changed the entry and was persisted,
\* the other found nothing to change
C7_Witness ==
  /\ Len(req) = 2
  /\ req[1].op \in ReactionOps /\ req[1].updated /\ req[1].status = 200
  /\ req[2].op \in ReactionOps /\ ~req[2].updated /\ req[2].status = 200
  /\ req[2].orig = req[1].orig
  /\ req[2].orig.exists

\* C8: comment authorship: edit(c, R, text), for any text, and delete(c, R)
\* by a user R who is not the author of the existing comment c fail with 403
\* and leave c unchanged and in place.
C8_NonAuthorForbidden ==
  LET i == Len(req)
  IN (/\ i >= 1
      /\ req[i].op \in {"editComment", "deleteComment"}
      /\ req[i].corig.exists
      /\ req[i].corig.user # req[i].user)
     => /\ req[i].pc = "done"
        /\ req[i].status = 403
        /\ comments[req[i].commentId] = req[i].corig

\* C9: a comment edit or delete that fails emits no event: commentUpdated and
\* commentDeleted are emitted only for a mutation that was performed.
C9_NoEventOnFailure ==
  \A k \in 1..Len(emitted) :
    emitted[k].event \in {"commentUpdated", "commentDeleted"} =>
      LET r == req[emitted[k].by]
      IN r.pc = "done" => r.status = 200

\* C10: self-notification suppression: no Notification has recipient = actor,
\* and a like or a comment by the owner of the entry never invokes the
\* notification dispatcher.
C10_NoSelfNotification ==
  /\ \A k \in 1..Len(notifications) :
       notifications[k].recipient # notifications[k].sender
  /\ \A i \in 1..Len(req) :
       (/\ req[i].op \in {"like", "createComment"}
        /\ req[i].orig.exists
        /\ req[i].orig.user = req[i].user)
       => /\ req[i].dispatched = 0
          /\ req[i].pc # "notify"
          /\ NotifsBy(i) = <<>>

\* the owner liked their own entry and commented on it, both persisted
C10_Witness ==
  /\ Len(req) = 2
  /\ req[1].op = "like" /\ req[1].updated /\ req[1].status = 200
  /\ req[1].orig.user = req[1].user
  /\ req[2].op = "createComment" /\ req[2].status = 201
  /\ req[2].orig.user = req[2].user

\* the primary write of request i (book.save() of a like, newComment.save()
\* of a comment creation) has completed
Persisted(i) ==
  IF req[i].op = "createComment"
  THEN req[i].commentId # 0
  ELSE req[i].pc = "done" /\ req[i].status = 200 /\ req[i].updated

\* C11: when the primary write of a reaction or of a comment creation fails,
\* the request is answered 500, emits no event, and no Notification is
\* created or dispatched for it.
C11_AbortOnWriteFailure ==
  \A i \in 1..Len(req) :
    (/\ req[i].op \in ReactionOps \cup {"createComment"}
     /\ req[i].err = "save")
    => /\ req[i].status = 500
       /\ EmitsBy(i) = <<>>
       /\ NotifsBy(i) = <<>>
       /\ req[i].dispatched = 0

\* C12: step ordering of a like and of a comment creation: an event is
\* emitted, and the notification dispatcher is invoked, only once the
\* mutation of the request has been persisted.
C12_PersistFirst ==
  \A i \in 1..Len(req) :
    (/\ req[i].op \in {"like", "createComment"}
     /\ (EmitsBy(i) # <<>> \/ req[i].dispatched > 0))
    => Persisted(i)

\* C13: failure isolation: when the notification step of a like or of a
\* comment creation fails, the mutation is persisted all the same and the
\* caller gets the success response.
C13_FailureIsolation ==
  \A i \in 1..Len(req) :
    (/\ req[i].op \in {"like", "createComment"}
     /\ req[i].err = "notify")
    => /\ Persisted(i)
       /\ req[i].status \in {200, 201}

ErrorStatus == {400, 401, 403, 404, 500}

\* C14: a call answered with an error status (400, 401, 403, 404, 500) leaves
\* the persisted state exactly as it was before the call: the entries'
\* counts and sets, the comments and their texts, the Notification records.
C14_ErrorLeavesStateUnchanged ==
  LET i == Len(req)
  IN (/\ i >= 1
      /\ req[i].pc = "done"
      /\ req[i].status \in ErrorStatus)
     => /\ books = req[i].pre.books
        /\ comments = req[i].pre.comments
        /\ notifications = req[i].pre.notifications

\* C15: a successful comment creation by B on entry X owned by A, B # A,
\* stores exactly one Comment (author B, entry X, the trimmed text), emits
\* exactly one newComment event, to room X, and creates exactly one
\* Notification: kind new_comment, recipient A, actor B, with the link and
\* the related item naming X and the new comment.
C15_CommentCreation ==
  \A i \in 1..Len(req) :
    (/\ req[i].op = "createComment"
     /\ req[i].status = 201
     /\ req[i].user # req[i].orig.user)
    => LET c == req[i].commentId
           X == req[i].bookId
       IN /\ c = Len(req[i].pre.comments) + 1
          /\ req[i].cdoc = [exists |-> TRUE, text |-> Trim(req[i].text),
                            user |-> req[i].user, book |-> X]
          /\ (i = Len(req) =>
                comments = Append(req[i].pre.comments, req[i].cdoc))
          /\ EmitsBy(i) = <<[room |-> X, event |-> "newComment", by |-> i,
                             id |-> c, doc |-> req[i].cdoc]>>
          /\ NotifsBy(i) = <<[recipient |-> req[i].orig.user,
                              sender |-> req[i].user, kind |-> "new_comment",
                              link |-> [book |-> X, commentId |-> c],
                              relatedItemType |-> "Comment",
                              relatedItemId |-> c, by |-> i]>>
          /\ req[i].dispatched = 1

\* a user who is not the owner posted a comment with surrounding blanks on
\* an entry that already had a comment
C15_Witness ==
  /\ Len(req) = 2
  /\ req[2].op = "createComment" /\ req[2].status = 201
  /\ req[2].user # req[2].orig.user
  /\ req[2].text # Trim(req[2].text)
  /\ req[2].commentId = 2
  /\ Len(comments) = 2

\* C16: a comment creation is answered 400 when the text is missing, empty
\* or blank, and 404 when the entry does not exist; in both cases no Comment
\* is stored, no event is emitted and no Notification is created.
C16_CreateRejected ==
  \A i \in 1..Len(req) :
    req[i].op = "createComment" =>
      /\ TextInvalid(req[i].text) => req[i].pc = "done" /\ req[i].status = 400
      /\ (~TextInvalid(req[i].text) /\ ~req[i].orig.exists) =>
           req[i].pc = "done" /\ req[i].status = 404
      /\ (TextInvalid(req[i].text) \/ ~req[i].orig.exists) =>
           /\ req[i].commentId = 0
           /\ EmitsBy(i) = <<>>
           /\ NotifsBy(i) = <<>> /\ req[i].dispatched = 0
           /\ (i = Len(req) => comments = req[i].pre.comments)

\* one creation without a text field answered 400 and one for a missing
\* entry answered 404, with nothing stored
C16_Witness ==
  /\ Len(req) = 2
  /\ req[1].op = "createComment" /\ req[1].text = NoText /\ req[1].status = 400
  /\ req[2].op = "createComment" /\ ~req[2].orig.exists /\ req[2].status = 404
  /\ comments = <<>>

\* C17: a persisted like(X, B) that changed X, with B not the owner A of X,
\* has created a Notification of kind new_like_on_book with recipient A and
\* actor B, relating to X. From a new entry X, like(X, B) gives like_count 1
\* and likedBy = {B}; a following dislike(X, B) gives like_count 0,
\* dislike_count 1, likedBy = {} and dislikedBy = {B}.
C17_LikeNotifies ==
  /\ \A i \in 1..Len(req) :
       (/\ req[i].op = "like"
        /\ req[i].status = 200 /\ req[i].updated
        /\ req[i].user # req[i].orig.user)
       => NotifsBy(i) = <<[recipient |-> req[i].orig.user,
                           sender |-> req[i].user,
                           kind |-> "new_like_on_book",
                           link |-> [book |-> req[i].bookId, commentId |-> 0],
                           relatedItemType |-> "Book",
                           relatedItemId |-> req[i].bookId, by |-> i]>>
  /\ (/\ Len(req) >= 1
      /\ req[1].op = "like" /\ req[1].status = 200
      /\ req[1].orig = NewBook(req[1].bookId))
     => /\ req[1].after.like_count = 1
        /\ req[1].after.likedBy = <<req[1].user>>
        /\ req[1].after.dislike_count = 0
        /\ req[1].after.dislikedBy = <<>>
        /\ (Consecutive(1, "like", "dislike") =>
              /\ req[2].after.like_count = 0
              /\ req[2].after.dislike_count = 1
              /\ req[2].after.likedBy = <<>>
              /\ req[2].after.dislikedBy = <<req[1].user>>
              /\ (Len(req) = 2 => books[req[2].bookId] = req[2].after))

\* a user who is not the owner liked a new entry and then disliked it
C17_Witness ==
  /\ Consecutive(1, "like", "dislike")
  /\ req[1].orig = NewBook(req[1].bookId)
  /\ req[1].user # req[1].orig.user
  /\ Len(NotifsBy(1)) = 1
  /\ req[2].pc = "done"

\* the effect of call i, which removes user u from one reaction set: arr and
\* cnt name the set and its count, arr2 and cnt2 the other pair
RemovalEffect(i, member, arrOf(_), cntOf(_), arr2Of(_), cnt2Of(_)) ==
  LET o == req[i].orig
      a == req[i].after
      u == req[i].user
  IN IF ~member
     THEN /\ req[i].pc = "done" /\ req[i].status = 200
          /\ ~req[i].updated
          /\ a = o
          /\ EmitsBy(i) = <<>>
          /\ (i = Len(req) => books = req[i].pre.books)
     ELSE req[i].status = 200 =>
            /\ arrOf(a) = Pull(arrOf(o), u)
            /\ ~Includes(arrOf(a), u)
            /\ cntOf(a) = cntOf(o) - 1
            /\ arr2Of(a) = arr2Of(o)
            /\ cnt2Of(a) = cnt2Of(o)
            /\ a.user = o.user /\ a.exists
            /\ OthersUnchanged(o, a, u)
            /\ (i = Len(req) => books[req[i].bookId] = a)

LikedByOf(b) == b.likedBy
LikeCountOf(b) == b.like_count
DislikedByOf(b) == b.dislikedBy
DislikeCountOf(b) == b.dislike_count

C19_RoomScoping ==
  \A k \in 1..Len(emitted) :
    LET e == emitted[k]
        r == req[e.by]
    IN /\ e.event = "bookInteractionUpdate" => e.room = e.id
       /\ e.event = "newComment" => e.room = e.doc.book
       /\ (e.event \in {"commentUpdated", "commentDeleted"} /\ r.corig.exists)
            => e.room = r.corig.book

\* the stored comments of entry b
CommentsOf(cs, b) == {c \in 1..Len(cs) : cs[c].exists /\ cs[c].book = b}

\* C18: cascading delete: once a deletion of entry X has completed, no
\* Comment of X exists, whatever the interleaving with comment creations;
\* and a deletion that fails part-way does not leave the comments of X gone
\* while X remains.
C18_CascadeDelete ==
  \A i \in 1..Len(req) :
    req[i].op = "deleteBook" =>
      /\ req[i].status = 200 => CommentsOf(comments, req[i].bookId) = {}
      /\ req[i].status = 500 =>
           ~(/\ books[req[i].bookId].exists
             /\ CommentsOf(req[i].pre.comments, req[i].bookId) # {}
             /\ CommentsOf(comments, req[i].bookId) = {})

\* C21: like, unlike, dislike and removeDislike on an entry that does not
\* exist are answered 404 and cause no write, no broadcast and no
\* notification.
C21_MissingEntry ==
  \A i \in 1..Len(req) :
    (req[i].op \in ReactionOps /\ ~req[i].orig.exists) =>
      /\ req[i].pc = "done" /\ req[i].status = 404
      /\ ~req[i].updated
      /\ EmitsBy(i) = <<>>
      /\ NotifsBy(i) = <<>> /\ req[i].dispatched = 0
      /\ (i = Len(req) =>
            /\ books = req[i].pre.books
            /\ notifications = req[i].pre.notifications)

\* a like and then a dislike of an entry that does not exist, both answered
\* 404, on a store that holds reactions
C21_Witness ==
  /\ Len(req) = 2
  /\ req[1].op = "like" /\ ~req[1].orig.exists /\ req[1].status = 404
  /\ req[2].op = "dislike" /\ ~req[2].orig.exists /\ req[2].status = 404
  /\ req[2].bookId = MissingBook
  /\ \E b \in BookIds : books[b].likedBy # <<>>

\* C22: admin gate: isAdmin calls next() if and only if the request carries
\* a user whose role is exactly "admin"; otherwise (no user, or another
\* role) it responds 403 and does not call next(). Exactly one of the two
\* outcomes happens for each request.
C22_AdminGate ==
  \A k \in 1..Len(gate) :
    LET g == gate[k]
        admin == g.user.present /\ g.user.role = "admin"
    IN /\ g.out.next = 1 <=> admin
       /\ g.out.status = 403 <=> ~admin
       /\ g.out.next \in {0, 1}
       /\ g.out.status \in {0, 403}
       /\ (g.out.next = 1) # (g.out.status = 403)

\* an admin, a user of another role and a request without a user have
\* passed through the gate
C22_Witness ==
  /\ Len(gate) = 3
  /\ gate[1].user = [present |-> TRUE, role |-> "admin"] /\ gate[1].out.next = 1
  /\ gate[2].user = [present |-> TRUE, role |-> "Admin"] /\ gate[2].out.status = 403
  /\ gate[3].user = NoUser /\ gate[3].out.status = 403

\* C23: a register call that fails (response not ok, network error, storage
\* error) resolves with undefined, not with a failure value, and leaves the
\* user and token of the store as they were; a register call that succeeds
\* resolves with {success: true} and has set both user and token.
C23_RegisterSwallowsFailure ==
  \A i \in 1..Len(calls) :
    (calls[i].op = "register" /\ calls[i].pc = "done") =>
      /\ calls[i].err # "none" =>
           /\ calls[i].result = "undefined"
           /\ calls[i].after = calls[i].before
      /\ calls[i].err = "none" =>
           /\ calls[i].result = "success"
           /\ calls[i].after.user = calls[i].acct
           /\ calls[i].after.user # Null
           /\ calls[i].after.token = TokenOf(calls[i].acct)
           /\ calls[i].after.token # NoToken

\* a register succeeded, then a second register failed on a storage write
\* while the store held the first one's user and token
C23_Witness ==
  /\ Len(calls) = 2
  /\ calls[1].op = "register" /\ calls[1].result = "success"
  /\ calls[2].op = "register" /\ calls[2].pc = "done"
  /\ calls[2].err = "setToken"
  /\ calls[2].before.user = calls[1].acct
  /\ calls[2].acct # calls[1].acct

\* a register or login call has started and has not resolved
SignInInFlight ==
  \E i \in 1..Len(calls) :
    calls[i].op \in {"register", "login"} /\ calls[i].pc # "done"

\* C26: whenever no register or login call is in flight, isLoading is false.
C26_LoadingFlag == ~SignInInFlight => ~store.isLoading

AllCallsDone == \A i \in 1..Len(calls) : calls[i].pc = "done"

\* C27: once all checkAuth, login, register and logout calls have completed,
\* whatever their interleaving, the user and token of the store are both
\* null or both set, and they agree with the stored 'user' and 'token' items.
\* Stated for the runs in which no storage or network call fails.
C27_AuthConsistency ==
  (AllCallsDone /\ \A i \in 1..Len(calls) : calls[i].err = "none") =>
    /\ (store.user = Null) <=> (store.token = NoToken)
    /\ store.token = storage.token
    /\ store.user = (IF storage.user = NoItem THEN Null ELSE Parse(storage.user))

UpdatesTo(b) ==
  SelectSeq(emitted, LAMBDA e : e.event = "bookInteractionUpdate" /\ e.room = b)

\* the users of an array
UsersOf(arr) == {arr[k] : k \in 1..Len(arr)}

\* the reaction state an event payload or a stored book shows
ReactionState(doc) ==
  [like_count |-> doc.like_count, dislike_count |-> doc.dislike_count,
   likedBy |-> UsersOf(doc.likedBy), dislikedBy |-> UsersOf(doc.dislikedBy)]

\* C24: broadcast ordering within a room: once all reaction requests on an
\* entry E, overlapping or not, have completed, the payload (like_count,
\* dislike_count, likedBy, dislikedBy) of the last bookInteractionUpdate
\* emitted to E's room equals the persisted reaction state of E.
C24_LastBroadcastIsStored ==
  Quiescent =>
    \A b \in BookIds :
      UpdatesTo(b) # <<>> =>
        ReactionState(UpdatesTo(b)[Len(UpdatesTo(b))].doc) = ReactionState(books[b])
====
